---- MODULE Spec2Model ----
(***************************************************************************)
(* Model of template_1.py: the LearningRate schedule, the descent class    *)
(* hierarchy (BaseDescent, VanillaGradientDescent, StochasticDescent and   *)
(* their regularized compositions) and the get_descent factory.            *)
(*                                                                         *)
(* Every method is modelled by the outcome of running its body: a value    *)
(* or the exception the body raises.  Method lookup follows Python's       *)
(* method resolution order, super() included.                              *)
(*                                                                         *)
(* Numbers: matrix entries, targets and weights are small integers.  The   *)
(* learning rate lambda_ * (s0/(s0+t))^p has a real                        *)
(* exponent p; p is kept in halves (p2 = 2p, the default p = 0.5 is        *)
(* p2 = 1) and the returned rate is kept as the exact fraction of its      *)
(* square, rate^2 = lambda_^2 * s0^p2 / (s0+t)^p2, with lambda_ > 0.       *)
(*                                                                         *)
(* Line 127 of the source is an unfinished return expression.  No run of   *)
(* StochasticDescent.calc_gradient gets that far: random.choices raises    *)
(* for batch_size <= 1 and the first loop iteration raises otherwise.      *)
(***************************************************************************)
EXTENDS Integers, Sequences, FiniteSets, TLC

VARIABLES self, twin, ret, tret, last, factory, lr, rate, ncalls, nupd, nlr

vars == <<self, twin, ret, tret, last, factory, lr, rate, ncalls, nupd, nlr>>

(***************************************************************************)
(* Bounds of the model.                                                    *)
(***************************************************************************)
MaxCalls == 2
MaxMu == 1
MaxLambda == 3
MaxS0 == 3
MaxP2 == 2
MaxIter == 4

\* the domains the arguments are drawn from: feature dimensions, row counts,
\* entries of X, y, w and gradients, batch sizes
Dims == {1, 2}
RowCounts == {1, 2}
Vals == {0, 1}
BatchSizes == {0, 1, 2}

\* k=4 in random.choices(range(self.batch_size - 1), k=4)
SampleK == 4

(***************************************************************************)
(* Outcomes of a call: None, a vector, or an exception.                    *)
(***************************************************************************)
NoCall == [kind |-> "nocall", err |-> "", vec |-> <<>>]
None == [kind |-> "None", err |-> "", vec |-> <<>>]
Raise(e) == [kind |-> "error", err |-> e, vec |-> <<>>]
Vec(v) == [kind |-> "vec", err |-> "", vec |-> v]

(***************************************************************************)
(* numpy helpers.                                                          *)
(***************************************************************************)
RECURSIVE Dot(_, _)
Dot(a, b) == IF a = <<>> THEN 0 ELSE Head(a) * Head(b) + Dot(Tail(a), Tail(b))

RECURSIVE Pow(_, _)
Pow(b, e) == IF e = 0 THEN 1 ELSE b * Pow(b, e - 1)

Rows(X) == Len(X)
Cols(X) == Len(X[1])

\* np.matmul of a 2-D array and a 1-D array
matmul(X, v) ==
    IF Cols(X) # Len(v) THEN Raise("ValueError")
    ELSE Vec([i \in 1..Rows(X) |-> Dot(X[i], v)])

Matrices == UNION {[1..n -> [1..c -> Vals]] : n \in RowCounts, c \in Dims}
Targets == UNION {[1..n -> Vals] : n \in RowCounts}
Gradients == UNION {[1..c -> Vals] : c \in Dims}

(***************************************************************************)
(* LearningRate                                                            *)
(***************************************************************************)
LearningRate(lambda_, s0, p2) ==
    [lambda_ |-> lambda_, s0 |-> s0, p2 |-> p2, iteration |-> 0]

\* the square of lambda_ * (s0 / (s0 + t)) ** p as a fraction
RateSq(l, t) ==
    [num |-> l.lambda_ * l.lambda_ * Pow(l.s0, l.p2), den |-> Pow(l.s0 + t, l.p2)]

NoRate == [num |-> 0, den |-> 1]

LearningRate_call_pre(l) ==
    [lr |-> [l EXCEPT !.iteration = l.iteration + 1], ret |-> RateSq(l, l.iteration)]

LearningRate_call(l) ==
    LET l2 == [l EXCEPT !.iteration = l.iteration + 1]
    IN  [lr |-> l2, ret |-> RateSq(l2, l2.iteration)]

(***************************************************************************)
(* The class hierarchy.                                                    *)
(***************************************************************************)
Classes == {"BaseDescent", "VanillaGradientDescent", "StochasticDescent",
            "BaseDescentReg", "VanillaGradientDescentReg", "StochasticDescentReg"}

MRO(c) ==
    CASE c = "BaseDescent" -> <<"BaseDescent">>
      [] c = "VanillaGradientDescent" -> <<"VanillaGradientDescent", "BaseDescent">>
      [] c = "StochasticDescent" ->
            <<"StochasticDescent", "VanillaGradientDescent", "BaseDescent">>
      [] c = "BaseDescentReg" -> <<"BaseDescentReg", "BaseDescent">>
      [] c = "VanillaGradientDescentReg" ->
            <<"VanillaGradientDescentReg", "BaseDescentReg",
              "VanillaGradientDescent", "BaseDescent">>
      [] c = "StochasticDescentReg" ->
            <<"StochasticDescentReg", "BaseDescentReg", "StochasticDescent",
              "VanillaGradientDescent", "BaseDescent">>

InMRO(c, k) == \E i \in 1..Len(MRO(c)) : MRO(c)[i] = k

IsReg(c) == InMRO(c, "BaseDescentReg")
IsStochastic(c) == InMRO(c, "StochasticDescent")
IsVanilla(c) == InMRO(c, "VanillaGradientDescent")

\* the class of the same gradient rule without the regularization layer
Unreg(c) ==
    CASE c = "BaseDescentReg" -> "BaseDescent"
      [] c = "VanillaGradientDescentReg" -> "VanillaGradientDescent"
      [] c = "StochasticDescentReg" -> "StochasticDescent"
      [] OTHER -> c

\* the constructors: an attribute a class does not set is kept as 0
New(c, w, lambda_, batch_size, mu) ==
    [cls |-> c, w |-> w, lr |-> LearningRate(lambda_, 1, 1),
     batch_size |-> IF IsStochastic(c) THEN batch_size ELSE 0,
     mu |-> IF IsReg(c) THEN mu ELSE 0]

(***************************************************************************)
(* predict                                                                 *)
(***************************************************************************)
predict(o, X) == matmul(X, o.w)

(***************************************************************************)
(* Method bodies.  A method returns the object after the call (no body in  *)
(* the source assigns to self.w or calls self.lr) and its outcome.         *)
(***************************************************************************)
Defines(k, m) ==
    CASE k = "BaseDescent" -> m \in {"step", "update_weights", "calc_gradient",
                                     "calc_loss", "predict"}
      [] k = "VanillaGradientDescent" -> m \in {"update_weights", "calc_gradient"}
      [] k = "StochasticDescent" -> m \in {"calc_gradient"}
      [] k = "BaseDescentReg" -> m \in {"calc_gradient"}
      [] OTHER -> FALSE

\* index in MRO(c) of the first class at or after position from that defines m
RECURSIVE Resolve(_, _, _)
Resolve(c, m, from) ==
    IF Defines(MRO(c)[from], m) THEN from ELSE Resolve(c, m, from + 1)

\* random.choices(range(m), k=4): the samples it can return for m > 0
Draws(m) == IF m <= 0 THEN {<<>>} ELSE [1..SampleK -> 0..(m - 1)]

\* the draws one calc_gradient call of o consumes
Samples(o) ==
    IF IsStochastic(o.cls) THEN Draws(o.batch_size - 1) ELSE {<<>>}

\* def update_weights(self, gradient): pass
BaseDescent_update_weights(o, g) == [obj |-> o, ret |-> None]

\* return -self.lr * gradient: unary minus of the LearningRate object itself
VanillaGradientDescent_update_weights(o, g) == [obj |-> o, ret |-> Raise("TypeError")]

update_weights(o, g) ==
    LET k == MRO(o.cls)[Resolve(o.cls, "update_weights", 1)]
    IN  IF k = "VanillaGradientDescent"
        THEN VanillaGradientDescent_update_weights(o, g)
        ELSE BaseDescent_update_weights(o, g)

\* def calc_gradient(self, X, y): pass
BaseDescent_calc_gradient(o, X, y) == [obj |-> o, ret |-> None, rl |-> <<>>]

\* return 2 * np.matmult(...): numpy has no attribute matmult
VanillaGradientDescent_calc_gradient(o, X, y) ==
    [obj |-> o, ret |-> Raise("AttributeError"), rl |-> <<>>]

\* rl is the sample random.choices returns when its population is not empty
StochasticDescent_calc_gradient(o, X, y, rl) ==
    IF o.batch_size - 1 <= 0
    THEN [obj |-> o, ret |-> Raise("IndexError"), rl |-> <<>>]
    ELSE \* first iteration: VanillaGradientDescent.calc_gradient(X, y) lacks y
         [obj |-> o, ret |-> Raise("TypeError"), rl |-> rl]

\* base + l2_gradient * self.mu with l2_gradient = np.zeros_like(X.shape[1])
AddPenalty(o, base) ==
    LET l2_gradient == 0
    IN  CASE base.ret.kind = "error" -> base
          [] base.ret.kind = "vec" ->
                [base EXCEPT !.ret = Vec([i \in 1..Len(base.ret.vec) |->
                                           base.ret.vec[i] + l2_gradient * o.mu])]
          [] OTHER -> [base EXCEPT !.ret = Raise("TypeError")]

RECURSIVE calc_gradient_from(_, _, _, _, _)

BaseDescentReg_calc_gradient_direct(o, X, y, rl, i) ==
    AddPenalty(o, BaseDescent_calc_gradient(o, X, y))

\* i is the position of BaseDescentReg in the MRO of o's class
BaseDescentReg_calc_gradient(o, X, y, rl, i) ==
    AddPenalty(o, calc_gradient_from(o, X, y, rl, i + 1))

\* the calc_gradient found at or after position from of the MRO
calc_gradient_from(o, X, y, rl, from) ==
    LET i == Resolve(o.cls, "calc_gradient", from)
        k == MRO(o.cls)[i]
    IN  CASE k = "BaseDescentReg" -> BaseDescentReg_calc_gradient(o, X, y, rl, i)
          [] k = "StochasticDescent" -> StochasticDescent_calc_gradient(o, X, y, rl)
          [] k = "VanillaGradientDescent" -> VanillaGradientDescent_calc_gradient(o, X, y)
          [] OTHER -> BaseDescent_calc_gradient(o, X, y)

calc_gradient(o, X, y, rl) == calc_gradient_from(o, X, y, rl, 1)

\* a step that zeroes the weights before it computes the gradient
step_reset(o, X, y, rl) ==
    LET z == [o EXCEPT !.w = [i \in 1..Len(o.w) |-> 0]]
        g == calc_gradient(z, X, y, rl)
    IN  IF g.ret.kind = "error" THEN g
        ELSE LET u == update_weights(g.obj, g.ret)
             IN  [obj |-> u.obj, ret |-> u.ret, rl |-> g.rl]

\* return self.update_weights(self.calc_gradient(X, y))
step(o, X, y, rl) ==
    LET g == calc_gradient(o, X, y, rl)
    IN  IF g.ret.kind = "error" THEN g
        ELSE LET u == update_weights(g.obj, g.ret)
             IN  [obj |-> u.obj, ret |-> u.ret, rl |-> g.rl]

(***************************************************************************)
(* get_descent                                                             *)
(***************************************************************************)
\* the class names bound in the module when get_descent runs
Globals == Classes

Names == <<"full", "stochastic", "momentum", "adam">>

\* the class expression of each entry of descent_mapping
MappingClass(name, regularized) ==
    CASE name = "full" ->
            IF ~regularized THEN "VanillaGradientDescent" ELSE "VanillaGradientDescentReg"
      [] name = "stochastic" ->
            IF ~regularized THEN "StochasticDescent" ELSE "StochasticDescentReg"
      [] name = "momentum" ->
            IF ~regularized THEN "MomentumDescent" ELSE "MomentumDescentReg"
      [] name = "adam" -> IF ~regularized THEN "Adam" ELSE "AdamReg"

NoInstance == [kind |-> "nocall", err |-> "", cls |-> "", keys |-> <<>>]

\* dict.get(key, default)
DictGet(present, value, default) == IF present THEN value ELSE default

\* config: has_name, descent_name, has_reg, regularized
get_descent(config) ==
    LET descent_name == DictGet(config.has_name, config.descent_name, "full")
        regularized == DictGet(config.has_reg, config.regularized, FALSE)
        \* the dict display evaluates every entry's class expression
        unbound == {i \in 1..Len(Names) : MappingClass(Names[i], regularized) \notin Globals}
    IN  IF unbound # {}
        THEN [kind |-> "error", err |-> "NameError", cls |-> "", keys |-> <<>>]
        ELSE IF \A i \in 1..Len(Names) : Names[i] # descent_name
        THEN [kind |-> "error", err |-> "ValueError", cls |-> "", keys |-> Names]
        ELSE [kind |-> "instance", err |-> "",
              cls |-> MappingClass(descent_name, regularized), keys |-> <<>>]

\* a key that is absent is written with has_* = FALSE and a fixed value
Configs ==
    {c \in [has_name : BOOLEAN,
            descent_name : {"full", "stochastic", "momentum", "adam", "bogus"},
            has_reg : BOOLEAN, regularized : BOOLEAN] :
        /\ (~c.has_name => c.descent_name = "full")
        /\ (~c.has_reg => c.regularized = FALSE)}

(***************************************************************************)
(* State.  self is the descent instance under test; twin is an instance    *)
(* of the unregularized class of the same gradient rule, constructed with  *)
(* the same weights, and every call on self is also made on twin with the  *)
(* same arguments and the same random draw.  ret and tret are the outcomes *)
(* of the last call, last records the call, factory the outcome of the     *)
(* last get_descent.  lr is a LearningRate object called directly and rate *)
(* its last return value.  ncalls, nupd and nlr count calls.               *)
(***************************************************************************)
NoLast == [op |-> "none", valid |-> FALSE, n |-> 0, rl |-> <<>>, wBefore |-> <<>>,
           g |-> <<>>, X |-> <<>>, y |-> <<>>, config |-> [has_name |-> FALSE, descent_name |-> "full",
                                   has_reg |-> FALSE, regularized |-> FALSE]]

Weights == UNION {[1..d -> Vals] : d \in Dims}

Instances ==
    {New(c, w, 1, b, m) : c \in Classes, w \in Weights, b \in BatchSizes, m \in 0..MaxMu}

InitCommon ==
    /\ ret = NoCall
    /\ tret = NoCall
    /\ last = NoLast
    /\ factory = NoInstance
    /\ rate = NoRate
    /\ ncalls = 0
    /\ nupd = 0
    /\ nlr = 0

Init ==
    /\ self \in Instances
    /\ twin = [self EXCEPT !.cls = Unreg(self.cls), !.mu = 0]
    /\ lr = LearningRate(1, 1, 1)
    /\ InitCommon

Valid(o, X, y) == Cols(X) = Len(o.w) /\ Rows(X) = Len(y)

Predict ==
    /\ ncalls < MaxCalls
    /\ \E X \in Matrices :
        /\ ret' = predict(self, X)
        /\ tret' = predict(twin, X)
        /\ last' = [NoLast EXCEPT !.op = "predict", !.valid = (Cols(X) = Len(self.w)),
                                  !.n = Rows(X), !.wBefore = self.w]
    /\ ncalls' = ncalls + 1
    /\ UNCHANGED <<self, twin, factory, lr, rate, nupd, nlr>>

\* observe: whether last records the arguments themselves or only their shape
CalcGradientCall(observe) ==
    /\ ncalls < MaxCalls
    /\ \E X \in Matrices, y \in Targets, rl \in Samples(self) :
        LET r == calc_gradient(self, X, y, rl)
            t == calc_gradient(twin, X, y, rl)
        IN  /\ self' = r.obj
            /\ ret' = r.ret
            /\ twin' = t.obj
            /\ tret' = t.ret
            /\ last' = [NoLast EXCEPT !.op = "calc_gradient", !.valid = Valid(self, X, y),
                                      !.n = Rows(X), !.rl = r.rl, !.wBefore = self.w,
                                      !.X = IF observe THEN X ELSE <<>>,
                                      !.y = IF observe THEN y ELSE <<>>]
    /\ ncalls' = ncalls + 1
    /\ UNCHANGED <<factory, lr, rate, nupd, nlr>>

CalcGradient == CalcGradientCall(FALSE)

ObserveGradient == CalcGradientCall(TRUE)

UpdateWeights ==
    /\ ncalls < MaxCalls
    /\ \E g \in Gradients :
        LET r == update_weights(self, Vec(g))
            t == update_weights(twin, Vec(g))
        IN  /\ self' = r.obj
            /\ ret' = r.ret
            /\ twin' = t.obj
            /\ tret' = t.ret
            /\ last' = [NoLast EXCEPT !.op = "update_weights",
                                      !.valid = (Len(g) = Len(self.w)),
                                      !.wBefore = self.w, !.g = g]
    /\ ncalls' = ncalls + 1
    /\ nupd' = nupd + 1
    /\ UNCHANGED <<factory, lr, rate, nlr>>

Step ==
    /\ ncalls < MaxCalls
    /\ \E X \in Matrices, y \in Targets, rl \in Samples(self) :
        LET r == step(self, X, y, rl)
            t == step(twin, X, y, rl)
        IN  /\ self' = r.obj
            /\ ret' = r.ret
            /\ twin' = t.obj
            /\ tret' = t.ret
            /\ last' = [NoLast EXCEPT !.op = "step", !.valid = Valid(self, X, y),
                                      !.n = Rows(X), !.rl = r.rl, !.wBefore = self.w]
    /\ ncalls' = ncalls + 1
    /\ nupd' = nupd + 1
    /\ UNCHANGED <<factory, lr, rate, nlr>>

GetDescent ==
    /\ ncalls < MaxCalls
    /\ \E config \in Configs :
        /\ factory' = get_descent(config)
        /\ last' = [NoLast EXCEPT !.op = "get_descent", !.config = config]
    /\ ncalls' = ncalls + 1
    /\ UNCHANGED <<self, twin, ret, tret, lr, rate, nupd, nlr>>

Next == Predict \/ CalcGradient \/ UpdateWeights \/ Step

Spec == Init /\ [][Next]_vars

(***************************************************************************)
(* calc_gradient alone, with its arguments recorded.                       *)
(***************************************************************************)
NextGrad == ObserveGradient

SpecGrad == Init /\ [][NextGrad]_vars

(***************************************************************************)
(* The module level: a LearningRate constructed with any lambda_, s0 and   *)
(* p, iteration left at its default 0, and called repeatedly; and calls of *)
(* get_descent.                                                            *)
(***************************************************************************)
InitLR ==
    /\ lr \in {LearningRate(l, s, p) : l \in 1..MaxLambda, s \in 1..MaxS0, p \in 0..MaxP2}
    /\ self = New("BaseDescent", <<0>>, 1, 0, 0)
    /\ twin = self
    /\ InitCommon

CallLearningRate ==
    /\ lr.iteration < MaxIter
    /\ LET c == LearningRate_call(lr)
       IN  /\ lr' = c.lr
           /\ rate' = c.ret
    /\ nlr' = nlr + 1
    /\ UNCHANGED <<self, twin, ret, tret, last, factory, ncalls, nupd>>

NextLR == CallLearningRate \/ GetDescent

SpecLR == InitLR /\ [][NextLR]_vars

(***************************************************************************)
(* Properties.                                                             *)
(***************************************************************************)
\* the gradient of the MSE loss sum((X w - y)^2): 2 * X^T (X w - y)
MseGradient(X, y, w) ==
    LET RECURSIVE Col(_, _)
        Col(j, i) == IF i = 0 THEN 0
                     ELSE X[i][j] * (Dot(X[i], w) - y[i]) + Col(j, i - 1)
    IN  [j \in 1..Len(w) |-> 2 * Col(j, Len(X))]

\* the sum over the sampled rows rl (0-based) of each row's MSE gradient
SampledGradientSum(X, y, w, rl) ==
    LET RECURSIVE Col(_, _)
        Col(j, k) == IF k = 0 THEN 0
                     ELSE LET i == rl[k] + 1
                          IN  2 * X[i][j] * (Dot(X[i], w) - y[i]) + Col(j, k - 1)
    IN  [j \in 1..Len(w) |-> Col(j, Len(rl))]

ConfigName == DictGet(last.config.has_name, last.config.descent_name, "full")
ConfigRegularized == DictGet(last.config.has_reg, last.config.regularized, FALSE)
Recognized == {"full", "stochastic", "momentum", "adam"}

\* C1: a step on data of matching dimensions returns a delta of length d and
\* leaves w equal to w before the call plus that delta.
C1_StepReturnsAppliedDelta ==
    (last.op = "step" /\ last.valid) =>
        /\ ret.kind = "vec"
        /\ Len(ret.vec) = Len(self.w)
        /\ \A i \in 1..Len(self.w) : self.w[i] = last.wBefore[i] + ret.vec[i]

\* C2: the k-th call of the schedule leaves iteration = k and returns
\* lambda_ * (s0 / (s0 + k))^p, the formula at the iteration after the increment
\* (stated on the square of the rate, cross-multiplied).
C2_ScheduleUsesIncrementedIteration ==
    /\ lr.iteration = nlr
    /\ nlr > 0 =>
        rate.num * Pow(lr.s0 + nlr, lr.p2)
            = lr.lambda_ * lr.lambda_ * Pow(lr.s0, lr.p2) * rate.den

\* C2 witness: a second call with the default p = 0.5, lambda_ = 2 and s0 = 2
\* has returned a rate whose square is 4 * 2 / 4.
C2_Witness ==
    /\ nlr = 2 /\ lr.p2 = 1 /\ lr.s0 = 2 /\ lr.lambda_ = 2
    /\ rate = [num |-> 8, den |-> 4]

\* C3: get_descent with an unrecognized descent_name fails with the error that
\* lists the four valid names, whatever regularized is.
C3_UnknownNameRaisesValueError ==
    (last.op = "get_descent" /\ ConfigName \notin Recognized) =>
        /\ factory.kind = "error"
        /\ factory.err = "ValueError"
        /\ factory.keys = <<"full", "stochastic", "momentum", "adam">>

\* C4: get_descent with a recognized descent_name returns an instance of the
\* class of that name, regularized or not as the configuration says.
C4_RecognizedNameReturnsInstance ==
    (last.op = "get_descent" /\ ConfigName \in Recognized) =>
        /\ factory.kind = "instance"
        /\ factory.cls = MappingClass(ConfigName, ConfigRegularized)

C7_FullBatchGradientIsMseGradient ==
    (last.op = "calc_gradient" /\ last.valid /\ self.cls = "VanillaGradientDescent") =>
        /\ ret.kind = "vec"
        /\ ret.vec = MseGradient(last.X, last.y, last.wBefore)

\* C8: on a full-batch descent every update_weights or step call advances the
\* schedule by one, so iteration equals the number of such calls, and
\* update_weights(g) returns -rate * g for the rate of that iteration.
C8_UpdateDrawsOneRate ==
    self.cls = "VanillaGradientDescent" =>
        /\ self.lr.iteration = nupd
        /\ (last.op = "update_weights" /\ last.valid) =>
            /\ ret.kind = "vec"
            /\ Len(ret.vec) = Len(last.g)
            /\ \A i \in 1..Len(last.g) :
                /\ ret.vec[i] * last.g[i] <= 0
                /\ ret.vec[i] * ret.vec[i] * RateSq(self.lr, nupd).den
                    = RateSq(self.lr, nupd).num * last.g[i] * last.g[i]

\* C9: calc_gradient of a regularized descent equals the wrapped variant's
\* calc_gradient plus mu * 2 * w.
C9_PenaltyIsTwoMuW ==
    (last.op = "calc_gradient" /\ last.valid /\ IsReg(self.cls)) =>
        /\ ret.kind = "vec"
        /\ tret.kind = "vec"
        /\ Len(ret.vec) = Len(self.w)
        /\ \A i \in 1..Len(self.w) :
            ret.vec[i] = tret.vec[i] + self.mu * 2 * last.wBefore[i]

\* C10: with 1 <= batch_size <= n the stochastic calc_gradient draws batch_size
\* row indices, each in 0..n-1, and returns the mean of the sampled rows'
\* gradients.
C10_SamplesBatchSizeRows ==
    (/\ last.op = "calc_gradient" /\ last.valid
     /\ self.cls = "StochasticDescent"
     /\ 1 <= self.batch_size /\ self.batch_size <= last.n) =>
        /\ Len(last.rl) = self.batch_size
        /\ \A k \in 1..Len(last.rl) : last.rl[k] \in 0..(last.n - 1)
        /\ ret.kind = "vec"
        /\ Len(ret.vec) = Len(self.w)
        /\ \A j \in 1..Len(self.w) :
            self.batch_size * ret.vec[j]
                = SampledGradientSum(last.X, last.y, last.wBefore, last.rl)[j]

====
